---- MODULE Spec2Model ----
(***************************************************************************)
(* Model of PattRecClasses/MarkovChain.py: the MarkovChain class, its      *)
(* constructor, the duration formulas, the sampler rand and the scaled     *)
(* forward and backward recursions.                                        *)
(*                                                                         *)
(* NumPy float64 values are modelled as exact fractions <<n, d>> in lowest *)
(* terms with d >= 0.  d = 0 holds the IEEE special values NumPy produces  *)
(* on a division by zero (it warns and goes on): <<1,0>> is inf, <<-1,0>>  *)
(* is -inf and <<0,0>> is nan.  Rounding is not modelled: an equality of   *)
(* the model is an equality up to floating-point tolerance in the program. *)
(***************************************************************************)
EXTENDS Integers, Sequences, FiniteSets, TLC

VARIABLES
    q,          \* self.q
    A,          \* self.A, a sequence of rows
    nStates,    \* self.nStates
    is_finite,  \* self.is_finite
    pc,         \* position of the caller / of the running method
    ret,        \* what the last call handed back: "", "object", "list", "None", "arrays", "ValueError"
    tmax,       \* argument of rand, probDuration, probStateDuration
    i,          \* loop index of the running method
    S,          \* rand: the list S
    pX,         \* caller's likelihood matrix, a sequence of rows
    c,          \* scale factors: forward's result, backward's argument
    a_hat,      \* forward: scaled forward variables, a sequence of rows
    beta_hat,   \* backward: scaled backward variables, a sequence of rows
    pD,         \* result array of the duration methods
    pSt,        \* probDuration: the vector pSt
    initial_prob,     \* constructor argument
    transition_prob   \* constructor argument

vars == <<q, A, nStates, is_finite, pc, ret, tmax, i, S, pX, c, a_hat,
          beta_hat, pD, pSt, initial_prob, transition_prob>>

----------------------------------------------------------------------------
(* Bounds of the model *)

MaxTmax == 3   \* largest tmax handed to rand and to the duration methods

MaxObs == 2    \* largest number of observations (columns of pX)

StateCounts == {1, 2}   \* numbers of states of the models explored

----------------------------------------------------------------------------
(* float64 arithmetic *)

Abs(x) == IF x < 0 THEN -x ELSE x

Sign(x) == IF x < 0 THEN -1 ELSE IF x = 0 THEN 0 ELSE 1

RECURSIVE Gcd(_, _)
Gcd(a, b) == IF b = 0 THEN a ELSE Gcd(b, a % b)

Frac(n, d) ==
    IF d = 0 THEN <<Sign(n), 0>>
    ELSE LET s == IF d < 0 THEN -1 ELSE 1
             g == Gcd(Abs(n), Abs(d))
         IN  <<(s * n) \div g, (s * d) \div g>>

Zero == <<0, 1>>
One  == <<1, 1>>
Half == <<1, 2>>
Inf  == <<1, 0>>
NaN  == <<0, 0>>

IsNaN(x) == x = NaN
IsInf(x) == x[2] = 0 /\ x[1] # 0
IsFinite(x) == x[2] # 0

Neg(x) == <<-x[1], x[2]>>

FMul(x, y) == Frac(x[1] * y[1], x[2] * y[2])

FAdd(x, y) ==
    IF IsNaN(x) \/ IsNaN(y) THEN NaN
    ELSE IF IsInf(x) /\ IsInf(y) THEN (IF x = y THEN x ELSE NaN)
    ELSE IF IsInf(x) THEN x
    ELSE IF IsInf(y) THEN y
    ELSE Frac(x[1] * y[2] + y[1] * x[2], x[2] * y[2])

FSub(x, y) == FAdd(x, Neg(y))

\* 1/x; 1/0 is inf, 1/inf is 0, 1/nan is nan
Recip(x) == IF x[1] < 0 THEN <<-x[2], -x[1]>> ELSE <<x[2], x[1]>>

FDiv(x, y) == FMul(x, Recip(y))

\* IEEE comparisons: every comparison with nan is false
FEq(x, y) == ~IsNaN(x) /\ ~IsNaN(y) /\ x = y

FLe(x, y) ==
    /\ ~IsNaN(x) /\ ~IsNaN(y)
    /\ \/ x = y
       \/ IsFinite(x) /\ IsFinite(y) /\ x[1] * y[2] <= y[1] * x[2]
       \/ x = Neg(Inf) \/ y = Inf

FGt(x, y) == ~IsNaN(x) /\ ~IsNaN(y) /\ ~FLe(x, y)

----------------------------------------------------------------------------
(* NumPy arrays: a vector is a sequence, a matrix a sequence of rows *)

RECURSIVE Sum(_)
Sum(v) == IF v = <<>> THEN Zero ELSE FAdd(Sum(SubSeq(v, 1, Len(v) - 1)), v[Len(v)])

RECURSIVE Prod(_)
Prod(v) == IF v = <<>> THEN One ELSE FMul(Prod(SubSeq(v, 1, Len(v) - 1)), v[Len(v)])

Rows(M) == Len(M)
Cols(M) == Len(M[1])

Column(M, j) == [r \in 1..Rows(M) |-> M[r][j]]

Transpose(M) == [j \in 1..Cols(M) |-> Column(M, j)]

Eye(n) == [r \in 1..n |-> [k \in 1..n |-> IF r = k THEN One ELSE Zero]]

Zeros(n) == [k \in 1..n |-> Zero]

Ones(n, m) == [r \in 1..n |-> [k \in 1..m |-> One]]

Diag(M) == [k \in 1..(IF Rows(M) < Cols(M) THEN Rows(M) ELSE Cols(M)) |-> M[k][k]]

\* x * y, elementwise, on two vectors of one length
VecMul(x, y) == [k \in 1..Len(x) |-> FMul(x[k], y[k])]

\* x / s, a vector by a scalar
VecDiv(x, s) == [k \in 1..Len(x) |-> FDiv(x[k], s)]

\* v @ M, a vector of length Rows(M) by a matrix
VecMat(v, M) == [j \in 1..Cols(M) |-> Sum([r \in 1..Rows(M) |-> FMul(v[r], M[r][j])])]

\* M @ v, a matrix by a vector of length Cols(M)
MatVec(M, v) == [r \in 1..Rows(M) |-> Sum([k \in 1..Cols(M) |-> FMul(M[r][k], v[k])])]

\* M[:, :-1]
DropLastColumn(M) == [r \in 1..Rows(M) |-> SubSeq(M[r], 1, Cols(M) - 1)]

\* M[:, -1]
LastColumn(M) == Column(M, Cols(M))

\* M with column j replaced by v
SetColumn(M, j, v) == [r \in 1..Rows(M) |-> [M[r] EXCEPT ![j] = v[r]]]

\* whether NumPy broadcasts shapes (r1, c1) and (r2, c2) together
Broadcastable(X, Y) ==
    /\ Rows(X) = Rows(Y) \/ Rows(X) = 1 \/ Rows(Y) = 1
    /\ Cols(X) = Cols(Y) \/ Cols(X) = 1 \/ Cols(Y) = 1

Max(a, b) == IF a < b THEN b ELSE a

\* X - Y under broadcasting (defined when Broadcastable(X, Y))
BroadcastSub(X, Y) ==
    [r \in 1..Max(Rows(X), Rows(Y)) |->
        [k \in 1..Max(Cols(X), Cols(Y)) |->
            FSub(X[IF Rows(X) = 1 THEN 1 ELSE r][IF Cols(X) = 1 THEN 1 ELSE k],
                 Y[IF Rows(Y) = 1 THEN 1 ELSE r][IF Cols(Y) = 1 THEN 1 ELSE k])]]

----------------------------------------------------------------------------
(* Inputs explored *)

Probs == {Zero, Half, One}

\* the probability vectors of length k with entries in Probs
Dist(k) == {v \in [1..k -> Probs] : Sum(v) = One}

\* a square (infinite-duration) or augmented (finite-duration) transition matrix
TransitionMatrices(n) == [1..n -> Dist(n)] \cup [1..n -> Dist(n + 1)]

\* likelihood matrices with n rows and T columns
Likelihoods(n, T) == [1..n -> [1..T -> Probs]]

----------------------------------------------------------------------------
(* MarkovChain.__init__ *)

MarkovChain(ip, tp) ==
    [q         |-> ip,
     A         |-> tp,
     nStates   |-> Rows(tp),
     is_finite |-> Rows(tp) # Cols(tp)]

\* the index of the END state of a finite-duration chain
END == nStates + 1

NoCall ==
    /\ ret = "" /\ tmax = 0 /\ i = 0
    /\ S = <<>> /\ pX = <<>> /\ c = <<>> /\ a_hat = <<>> /\ beta_hat = <<>>
    /\ pD = <<>> /\ pSt = <<>>

\* a model built from a consistent pair (q, A), no call under way
Init ==
    /\ \E n \in StateCounts :
          /\ initial_prob \in Dist(n)
          /\ transition_prob \in TransitionMatrices(n)
    /\ LET mc == MarkovChain(initial_prob, transition_prob)
       IN  /\ q = mc.q
           /\ A = mc.A
           /\ nStates = mc.nStates
           /\ is_finite = mc.is_finite
    /\ pc = "idle"
    /\ NoCall

model == <<q, A, nStates, is_finite, initial_prob, transition_prob>>

\* the caller drops the result of a finished call
Return ==
    /\ pc \in {"rand_ret", "pd_ret", "psd_ret", "msd_ret", "fwd_ret", "bwd_ret"}
    /\ pc' = "idle"
    /\ ret' = "" /\ tmax' = 0 /\ i' = 0
    /\ S' = <<>> /\ pX' = <<>> /\ c' = <<>> /\ a_hat' = <<>> /\ beta_hat' = <<>>
    /\ pD' = <<>> /\ pSt' = <<>>
    /\ UNCHANGED model

----------------------------------------------------------------------------
(* MarkovChain.rand *)

\* np.random.choice(np.arange(1, len(p) + 1), p = p): any index of positive mass
Choice(p) == {k \in 1..Len(p) : FGt(p[k], Zero)}

\* the first draw, and the return statements that sit inside "if tmax > 1"
RandCall(t) ==
    /\ pc = "idle"
    /\ \E s1 \in Choice(q) :
          /\ tmax' = t
          /\ IF t > 1
             THEN /\ S' = <<s1>>
                  /\ i' = 1
                  /\ pc' = "rand_loop"
                  /\ ret' = ""
             ELSE \* neither branch returns: the method falls off its end
                  /\ S' = <<s1>>
                  /\ i' = 0
                  /\ pc' = "rand_ret"
                  /\ ret' = "None"
    /\ UNCHANGED <<model, pX, c, a_hat, beta_hat, pD, pSt>>

\* one pass of "for i in np.arange(1, tmax)", or the return after the loop
RandStep ==
    /\ pc = "rand_loop"
    /\ IF i < tmax
       THEN \E next_state \in Choice(A[S[i]]) :
               IF is_finite /\ next_state = END
               THEN /\ pc' = "rand_ret" /\ ret' = "list"
                    /\ UNCHANGED <<S, i>>
               ELSE /\ S' = Append(S, next_state)
                    /\ i' = i + 1
                    /\ UNCHANGED <<pc, ret>>
       ELSE /\ pc' = "rand_ret" /\ ret' = "list"
            /\ UNCHANGED <<S, i>>
    /\ UNCHANGED <<model, tmax, pX, c, a_hat, beta_hat, pD, pSt>>

----------------------------------------------------------------------------
(* MarkovChain.probDuration *)

\* pD = np.zeros(tmax); for a finite chain pSt = (np.eye(nStates) - A.T) @ q
ProbDurationCall(t) ==
    /\ pc = "idle"
    /\ tmax' = t
    /\ pD' = Zeros(t)
    /\ i' = 0
    /\ IF is_finite
       THEN IF Broadcastable(Eye(nStates), Transpose(A))
            THEN LET M == BroadcastSub(Eye(nStates), Transpose(A))
                 IN  IF Cols(M) = Len(q)
                     THEN /\ pSt' = MatVec(M, q)
                          /\ pc' = "pd_loop"
                          /\ ret' = ""
                     ELSE /\ pSt' = <<>>
                          /\ pc' = "pd_ret"
                          /\ ret' = "ValueError"
            ELSE \* operands could not be broadcast together
                 /\ pSt' = <<>>
                 /\ pc' = "pd_ret"
                 /\ ret' = "ValueError"
       ELSE /\ pSt' = <<>>
            /\ pc' = "pd_ret"
            /\ ret' = "arrays"
    /\ UNCHANGED <<model, S, pX, c, a_hat, beta_hat>>

\* one pass of "for t in range(tmax)", or the return after the loop
ProbDurationStep ==
    /\ pc = "pd_loop"
    /\ IF i < tmax
       THEN /\ pD' = [pD EXCEPT ![i + 1] = Sum(pSt)]
            /\ IF Cols(Transpose(A)) = Len(pSt)
               THEN /\ pSt' = MatVec(Transpose(A), pSt)
                    /\ i' = i + 1
                    /\ UNCHANGED <<pc, ret>>
               ELSE \* matmul: mismatch in its core dimension
                    /\ pc' = "pd_ret"
                    /\ ret' = "ValueError"
                    /\ UNCHANGED <<pSt, i>>
       ELSE /\ pc' = "pd_ret"
            /\ ret' = "arrays"
            /\ UNCHANGED <<pD, pSt, i>>
    /\ UNCHANGED <<model, tmax, S, pX, c, a_hat, beta_hat>>

----------------------------------------------------------------------------
(* MarkovChain.probStateDuration and MarkovChain.meanStateDuration *)

RECURSIVE Pow(_, _)
Pow(a, t) == IF t = 0 THEN One ELSE FMul(a, Pow(a, t - 1))

\* np.exp(np.log(a) * t + np.log(1 - a)) for a in [0, 1] and an integer t >= 0.
\* log(0) is -inf: -inf * 0 is nan, -inf * t is -inf for t > 0, exp(-inf) is 0.
StateDurationMass(a, t) ==
    IF IsNaN(a) THEN NaN
    ELSE IF a = Zero THEN (IF t = 0 THEN NaN ELSE Zero)
    ELSE IF a = One THEN Zero
    ELSE FMul(Pow(a, t), FSub(One, a))

ProbStateDuration(t) ==
    /\ pc = "idle"
    /\ tmax' = t
    /\ pD' = [k \in 1..Len(Diag(A)) |->
                 [d \in 1..t |-> StateDurationMass(Diag(A)[k], d - 1)]]
    /\ pc' = "psd_ret"
    /\ ret' = "arrays"
    /\ UNCHANGED <<model, i, S, pX, c, a_hat, beta_hat, pSt>>

MeanStateDuration ==
    /\ pc = "idle"
    /\ pD' = [k \in 1..Len(Diag(A)) |-> FDiv(One, FSub(One, Diag(A)[k]))]
    /\ pc' = "msd_ret"
    /\ ret' = "arrays"
    /\ UNCHANGED <<model, tmax, i, S, pX, c, a_hat, beta_hat, pSt>>

----------------------------------------------------------------------------
(* MarkovChain.forward *)

nObservations == Cols(pX)

\* a_temp = self.q * pX[:, 0]
ForwardFirst(qq, px) == VecMul(qq, Column(px, 1))

\* a_temp = pX[:, i] * (a_hat[:, i-1] @ self.A[:, :-1]), self.A[:,] when infinite;
\* t is the 1-based number of the column written
ForwardNext(ah, AA, px, t, fin) ==
    VecMul(Column(px, t),
           VecMat(Column(ah, t - 1), IF fin THEN DropLastColumn(AA) ELSE AA))

\* a slip: the exit factor taken from the first column of A instead of the last
ForwardExitFirstColumn(ah, AA) == Sum(VecMul(Column(ah, Cols(ah)), Column(AA, 1)))

\* c[nObservations] = a_hat[:, nObservations - 1] @ self.A[:, -1]
ForwardExit(ah, AA) == Sum(VecMul(Column(ah, Cols(ah)), LastColumn(AA)))

\* the allocations and step 0
ForwardCall(px) ==
    /\ pc = "idle"
    /\ Rows(px) = nStates                      \* assert nStates == self.nStates
    /\ pX' = px
    /\ LET a_temp == ForwardFirst(q, px)
           T      == Cols(px)
           c0     == [k \in 1..(IF is_finite THEN T + 1 ELSE T) |-> One]
       IN  /\ c' = [c0 EXCEPT ![1] = Sum(a_temp)]
           /\ a_hat' = SetColumn(Ones(nStates, T), 1, VecDiv(a_temp, Sum(a_temp)))
    /\ i' = 1
    /\ pc' = "fwd_loop"
    /\ UNCHANGED <<model, ret, tmax, S, beta_hat, pD, pSt>>

\* one pass of "for i in np.arange(1, nObservations)", or the exit step and the return
ForwardStep ==
    /\ pc = "fwd_loop"
    /\ IF i < nObservations
       THEN LET a_temp == ForwardNext(a_hat, A, pX, i + 1, is_finite)
            IN  /\ c' = [c EXCEPT ![i + 1] = Sum(a_temp)]
                /\ a_hat' = SetColumn(a_hat, i + 1, VecDiv(a_temp, Sum(a_temp)))
                /\ i' = i + 1
                /\ UNCHANGED <<pc, ret>>
       ELSE /\ c' = IF is_finite
                    THEN [c EXCEPT ![nObservations + 1] = ForwardExit(a_hat, A)]
                    ELSE c
            /\ pc' = "fwd_ret"
            /\ ret' = "arrays"
            /\ UNCHANGED <<a_hat, i>>
    /\ UNCHANGED <<model, tmax, S, pX, beta_hat, pD, pSt>>

----------------------------------------------------------------------------
(* MarkovChain.backward *)

nSamples == Cols(pX)

\* beta_hat[:, -1]: self.A[:, -1] / (c[-1] * c[-2]) when finite, 1.0 / c[-1] otherwise
BackwardLast(AA, cc, fin) ==
    IF fin
    THEN VecDiv(LastColumn(AA), FMul(cc[Len(cc)], cc[Len(cc) - 1]))
    ELSE [k \in 1..Rows(AA) |-> FDiv(One, cc[Len(cc)])]

\* a slip: the sum divided by c[t+1] instead of c[t]
BackwardCellNextScale(AA, px, bh, cc, r, t) ==
    FDiv(Sum([j \in 1..Rows(AA) |-> FMul(FMul(AA[r][j], px[j][t + 1]), bh[j][t + 1])]),
         cc[t + 1])

\* beta_hat[r, t] for the 1-based row r and column t:
\* (sum over j in range(nStates) of A[r, j] * pX[j, t+1] * beta_hat[j, t+1]) / c[t]
BackwardCell(AA, px, bh, cc, r, t) ==
    FDiv(Sum([j \in 1..Rows(AA) |-> FMul(FMul(AA[r][j], px[j][t + 1]), bh[j][t + 1])]),
         cc[t])

\* a slip: the last column normalised through a view of self.A[:, -1], in place
BackwardCallAliased ==
    /\ pc = "fwd_ret"
    /\ beta_hat' = SetColumn([r \in 1..nStates |-> Zeros(nSamples)], nSamples,
                             BackwardLast(A, c, is_finite))
    /\ A' = IF is_finite
            THEN SetColumn(A, Cols(A), BackwardLast(A, c, is_finite))
            ELSE A
    /\ i' = nSamples - 2
    /\ pc' = "bwd_loop"
    /\ ret' = ""
    /\ UNCHANGED <<q, nStates, is_finite, initial_prob, transition_prob,
                   tmax, S, pX, c, a_hat, pD, pSt>>

\* the allocation and the last column; the caller hands in forward's c and its pX
BackwardCall ==
    /\ pc = "fwd_ret"
    /\ beta_hat' = SetColumn([r \in 1..nStates |-> Zeros(nSamples)], nSamples,
                             BackwardLast(A, c, is_finite))
    /\ i' = nSamples - 2
    /\ pc' = "bwd_loop"
    /\ ret' = ""
    /\ UNCHANGED <<model, tmax, S, pX, c, a_hat, pD, pSt>>

\* one pass of "for t in range(nSamples - 2, -1, -1)", or the return
BackwardStep ==
    /\ pc = "bwd_loop"
    /\ IF i >= 0
       THEN /\ beta_hat' = SetColumn(beta_hat, i + 1,
                              [r \in 1..nStates |->
                                  BackwardCell(A, pX, beta_hat, c, r, i + 1)])
            /\ i' = i - 1
            /\ UNCHANGED <<pc, ret>>
       ELSE /\ pc' = "bwd_ret"
            /\ ret' = "arrays"
            /\ UNCHANGED <<beta_hat, i>>
    /\ UNCHANGED <<model, tmax, S, pX, c, a_hat, pD, pSt>>

----------------------------------------------------------------------------
(* The specification: any sequence of calls on one model *)

Next ==
    \/ \E t \in 1..MaxTmax : RandCall(t)
    \/ RandStep
    \/ \E t \in 1..MaxTmax : ProbDurationCall(t)
    \/ ProbDurationStep
    \/ \E t \in 1..MaxTmax : ProbStateDuration(t)
    \/ MeanStateDuration
    \/ \E T \in 1..MaxObs : \E px \in Likelihoods(nStates, T) : ForwardCall(px)
    \/ ForwardStep
    \/ BackwardCall
    \/ BackwardStep
    \/ Return

Spec == Init /\ [][Next]_vars

----------------------------------------------------------------------------
(* Construction on its own: the arguments are any vector and any matrix *)

InitCtor ==
    /\ initial_prob \in UNION {Dist(n) : n \in StateCounts}
    /\ transition_prob \in UNION {TransitionMatrices(n) : n \in StateCounts}
    /\ q = <<>> /\ A = <<>> /\ nStates = 0 /\ is_finite = FALSE
    /\ pc = "new"
    /\ NoCall

\* __init__ stores its arguments and derives nStates and is_finite; it checks nothing
Construct ==
    /\ pc = "new"
    /\ LET mc == MarkovChain(initial_prob, transition_prob)
       IN  /\ q' = mc.q
           /\ A' = mc.A
           /\ nStates' = mc.nStates
           /\ is_finite' = mc.is_finite
    /\ pc' = "idle"
    /\ ret' = "object"
    /\ UNCHANGED <<initial_prob, transition_prob, tmax, i, S, pX, c, a_hat,
                   beta_hat, pD, pSt>>

NextCtor == Construct

SpecCtor == InitCtor /\ [][NextCtor]_vars

----------------------------------------------------------------------------
(* The properties *)

\* every element of a vector is a number (not nan)
NoNaN(v) == \A k \in 1..Len(v) : ~IsNaN(v[k])

NoZero(v) == \A k \in 1..Len(v) : v[k] # Zero

\* the unscaled weight of one state path p (a function on 1..T):
\* q[p1] pX[p1,1] * prod A[p(t-1),p(t)] pX[p(t),t] (* A[p(T),END] when finite)
RECURSIVE PathPrefixWeight(_, _)
PathPrefixWeight(p, t) ==
    IF t = 1
    THEN FMul(q[p[1]], pX[p[1]][1])
    ELSE FMul(PathPrefixWeight(p, t - 1),
              FMul(A[p[t - 1]][p[t]], pX[p[t]][t]))

PathWeight(p) ==
    IF is_finite
    THEN FMul(PathPrefixWeight(p, nObservations), A[p[nObservations]][END])
    ELSE PathPrefixWeight(p, nObservations)

RECURSIVE TotalWeight(_)
TotalWeight(paths) ==
    IF paths = {} THEN Zero
    ELSE LET p == CHOOSE x \in paths : TRUE
         IN  FAdd(PathWeight(p), TotalWeight(paths \ {p}))

\* the likelihood of the observations, summed over every state path
Likelihood == TotalWeight([1..nObservations -> 1..nStates])

\* sum over the states of a_hat[:, t] * beta_hat[:, t] * c[t], t the 1-based column
Gamma(t) ==
    Sum([r \in 1..nStates |-> FMul(FMul(a_hat[r][t], beta_hat[r][t]), c[t])])

\* C1: when rand returns on an infinite-duration chain, it hands back a list of
\* exactly tmax states, for every tmax >= 1 (tmax = 1 included).
C1_InfiniteRandLength ==
    (pc = "rand_ret" /\ ~is_finite) => (ret = "list" /\ Len(S) = tmax)

\* C2: when rand returns on a finite-duration chain, it hands back a list of at
\* most tmax states, each in 1..nStates (END never appears), for every tmax >= 1.
C2_FiniteRandNoEnd ==
    (pc = "rand_ret" /\ is_finite) =>
        /\ ret = "list"
        /\ Len(S) <= tmax
        /\ \A k \in 1..Len(S) : S[k] \in 1..nStates

\* C3: on a finite-duration chain whose END column is all ones, rand hands back
\* a list of exactly one state, for every tmax >= 1.
C3_CertainEndLengthOne ==
    (pc = "rand_ret" /\ is_finite /\ \A r \in 1..nStates : A[r][END] = One) =>
        (ret = "list" /\ Len(S) = 1)

\* C4: on a finite-duration chain probDuration hands back tmax values, each
\* non-negative, with a sum of at most 1.
C4_DurationMass ==
    (pc = "pd_ret" /\ is_finite) =>
        /\ ret = "arrays"
        /\ Len(pD) = tmax
        /\ \A k \in 1..Len(pD) : FLe(Zero, pD[k])
        /\ FLe(Sum(pD), One)

\* C5: when forward returns and no scale factor is zero, the product of all
\* entries of c equals the likelihood summed over every state path.
C5_ScaleProductIsLikelihood ==
    (pc = "fwd_ret" /\ NoZero(c)) => FEq(Prod(c), Likelihood)

\* A returned forward pass of a finite chain over two or more observations
\* whose likelihood is neither 0 nor 1.
C5_Witness ==
    /\ pc = "fwd_ret" /\ NoZero(c)
    /\ is_finite /\ nStates = 2 /\ nObservations >= 2
    /\ Prod(c) \notin {Zero, One}
    /\ \E r \in 1..nStates : a_hat[r][nObservations] \notin {Zero, One}

C7_ColumnsSumToOne ==
    (pc \in {"fwd_loop", "fwd_ret"}) =>
        \A t \in 1..i : FEq(Sum(Column(a_hat, t)), One)

\* C8: construction fails when A's row count differs from len(q): no object
\* with len(q) # nStates is produced.
C8_ShapeMismatchRejected ==
    (pc # "new" /\ Len(initial_prob) # Rows(transition_prob)) =>
        (ret = "ValueError" /\ q = <<>>)

\* C9: forward never returns (a_hat, c) after a step whose unnormalised mass
\* was 0, nor a result holding nan.
C9_ZeroMassIsAnError ==
    (pc = "fwd_ret" /\ ret = "arrays") =>
        /\ \A t \in 1..nObservations : c[t] # Zero
        /\ NoNaN(c)
        /\ \A r \in 1..nStates : NoNaN(a_hat[r])

\* C10: no step of any method changes q, A, nStates or is_finite; no step of
\* forward or backward changes the caller's pX, and no step of backward the
\* caller's c.
C10_Step ==
    /\ q' = q /\ A' = A /\ nStates' = nStates /\ is_finite' = is_finite
    /\ (pc \in {"fwd_loop", "fwd_ret", "bwd_loop"} /\ pc' # "idle") => pX' = pX
    /\ (pc \in {"fwd_ret", "bwd_loop"} /\ pc' # "idle") => c' = c

C10_ModelImmutable == [][C10_Step]_vars

\* backward has returned on a finite chain and the model still holds the
\* constructor's arguments.
C10_Witness ==
    /\ pc = "bwd_ret" /\ is_finite /\ nSamples >= 2
    /\ q = initial_prob /\ A = transition_prob
    /\ \E r \in 1..nStates : beta_hat[r][nSamples] \notin {Zero, One}

====
